---- MODULE Spec2Model ----
(***************************************************************************)
(* The JSON document type of sapling (src/src/ast/json.rs): the two text   *)
(* serialisers (write_text_compact, write_text_pretty), the child          *)
(* enumeration and the replacement palette.                                *)
(*                                                                         *)
(* Text is a sequence of one-character strings.  The serialisers are       *)
(* modelled operationally: a call stack of frames, one per active          *)
(* invocation of write_text_compact / write_text_pretty, and one step per  *)
(* straight-line block of the function body.  Each step is a function on   *)
(* the writer record, so that running a call to completion (Exec) gives    *)
(* the text the code produces for any node.                                *)
(***************************************************************************)
EXTENDS Naturals, Sequences, FiniteSets, TLC

VARIABLES
    node,          \* the root node the host holds (&self of every call)
    format_style,  \* the JSONFormat of the last write_text call
    op,            \* the operation called last
    arg,           \* its character or buffer argument
    result,        \* its return value
    w              \* the writer: the buffers and call stack of the serialiser

vars == <<node, format_style, op, arg, result, w>>

(***************************************************************************)
(* Bounds                                                                  *)
(***************************************************************************)
\* Greatest number of nodes in a document (root included).
MaxNodes == 3

(***************************************************************************)
(* enum JSON and enum JSONFormat                                           *)
(***************************************************************************)
JSONFormat == {"Compact", "Pretty"}

JsonTrue == [tag |-> "True"]

JsonFalse == [tag |-> "False"]

Array(children) == [tag |-> "Array", children |-> children]

Object(fields) == [tag |-> "Object", fields |-> fields]

\* Object names the documents are built from: a plain name, a name that
\* holds the text the serialiser puts between two pairs (a": [], "a), and a
\* name made of a comma, a newline and a space.
Names ==
    { <<"a">>,
      <<"a", "\"", ":", " ", "[", "]", ",", " ", "\"", "a">>,
      <<",", "\n", " ">> }

RECURSIVE Trees(_), ArrayForests(_), ObjectForests(_)
\* The documents of exactly n nodes.
Trees(n) ==
    IF n = 0 THEN {}
    ELSE (IF n = 1 THEN {JsonTrue, JsonFalse} ELSE {})
         \cup {Array(f) : f \in ArrayForests(n - 1)}
         \cup {Object(f) : f \in ObjectForests(n - 1)}

\* The Vec<JSON> values of n nodes in all.
ArrayForests(n) ==
    IF n = 0 THEN {<<>>}
    ELSE UNION {{<<t>> \o f : t \in Trees(k), f \in ArrayForests(n - k)} : k \in 1..n}

\* The Vec<(String, JSON)> values of n nodes in all.
ObjectForests(n) ==
    IF n = 0 THEN {<<>>}
    ELSE UNION {{<< <<nm, t>> >> \o f : nm \in Names, t \in Trees(k),
                                       f \in ObjectForests(n - k)} : k \in 1..n}

NodeSet == UNION {Trees(n) : n \in 1..MaxNodes}

IsLeaf(self) == self.tag \in {"True", "False"}

\* children.len() / fields.len()
NumItems(self) ==
    IF self.tag = "Array" THEN Len(self.children)
    ELSE IF self.tag = "Object" THEN Len(self.fields)
    ELSE 0

\* The k-th value yielded by children.iter(): the child itself.
ArrayItem(self, k) == self.children[k]

\* The k-th (name, child) yielded by fields.iter().
FieldName(self, k) == self.fields[k][1]

FieldChild(self, k) == self.fields[k][2]

(***************************************************************************)
(* String                                                                  *)
(***************************************************************************)
\* String::pop: removes the last character, if there is one.
Pop(s) == IF Len(s) = 0 THEN s ELSE SubSeq(s, 1, Len(s) - 1)

\* The literal "    " of indentation_buffer.push_str.
IndentUnit == <<" ", " ", " ", " ">>

\* PopIndent with the loop running over 0..3.
PopIndentThree(s) == Pop(Pop(Pop(s)))

\* for _ in 0..4 { indentation_buffer.pop(); }
PopIndent(s) == Pop(Pop(Pop(Pop(s))))

(***************************************************************************)
(* The writer                                                              *)
(*   string, indentation_buffer : the two &mut String of the code          *)
(*   stack   : the active invocations, outermost first; a frame holds      *)
(*             self, its position pc ("enter", "loop", "close"), the       *)
(*             number i of items the loop has taken from the iterator and  *)
(*             is_first_child                                              *)
(* History, written but never read by the steps:                           *)
(*   frame.from, frame.entry_ib : Len(string) and indentation_buffer when  *)
(*             the invocation was entered                                  *)
(*   pushes  : every push / push_str made, with the source line making it  *)
(*   returned: the invocation that returned last: its node, its nesting    *)
(*             depth, the number of items its loop took, the text it       *)
(*             appended, indentation_buffer at entry and at return         *)
(*   prior   : string as the caller handed it in                           *)
(***************************************************************************)
NoReturn == [none |-> TRUE]

Idle ==
    [string |-> <<>>, indentation_buffer |-> <<>>, stack |-> <<>>,
     pushes |-> <<>>, returned |-> NoReturn, prior |-> <<>>]

Frame(self, s) ==
    [self |-> self, pc |-> "enter", i |-> 0, is_first_child |-> TRUE,
     from |-> Len(s.string), entry_ib |-> s.indentation_buffer]

\* The writer on entry to the outermost invocation.
Enter(self, string, indentation_buffer) ==
    LET s == [Idle EXCEPT !.string = string, !.prior = string,
                          !.indentation_buffer = indentation_buffer]
    IN [s EXCEPT !.stack = <<Frame(self, s)>>]

Top(s) == s.stack[Len(s.stack)]

\* string.push(c) / string.push_str(text), made at source line `line`.
Push(s, line, text) ==
    [s EXCEPT !.string = @ \o text,
              !.pushes = Append(@, [line |-> line, text |-> text])]

\* The source line of a push in the Array arm or in the Object arm.
Arm(self, arrayLine, objectLine) ==
    IF self.tag = "Array" THEN arrayLine ELSE objectLine

OpenBracket(self) == IF self.tag = "Array" THEN <<"[">> ELSE <<"{">>

CloseBracket(self) == IF self.tag = "Array" THEN <<"]">> ELSE <<"}">>

LeafText(self) ==
    IF self.tag = "True" THEN <<"t", "r", "u", "e">>
    ELSE <<"f", "a", "l", "s", "e">>

SetTop(s, f) == [s EXCEPT !.stack[Len(s.stack)] = f]

\* The invocation on top of the stack returns to its caller.
Return(s) ==
    LET f == Top(s)
    IN [s EXCEPT !.stack = SubSeq(@, 1, Len(@) - 1),
                 !.returned = [self |-> f.self,
                               depth |-> Len(s.stack) - 1,
                               taken |-> f.i,
                               text |-> SubSeq(s.string, f.from + 1, Len(s.string)),
                               entry_ib |-> f.entry_ib,
                               exit_ib |-> s.indentation_buffer]]

\* child.write_text_*(string, ..): the loop has taken one more item and the
\* callee's invocation is entered.
Call(s, child) ==
    LET f == Top(s)
        t == SetTop(s, [f EXCEPT !.i = @ + 1, !.is_first_child = FALSE])
    IN [t EXCEPT !.stack = Append(@, Frame(child, t))]

Running(s) == s.stack # <<>>

At(s, pc) == Running(s) /\ Top(s).pc = pc

(***************************************************************************)
(* write_text_compact                                                      *)
(***************************************************************************)
\* JSON::True / JSON::False arms.
CompactLeafStep(s) ==
    LET self == Top(s).self
    IN Return(Push(s, IF self.tag = "True" THEN 39 ELSE 42, LeafText(self)))

\* string.push('[') / string.push('{'); let mut is_first_child = true;
CompactOpenStep(s) ==
    LET f == Top(s)
        t == Push(s, Arm(f.self, 46, 63), OpenBracket(f.self))
    IN SetTop(t, [f EXCEPT !.pc = "loop", !.is_first_child = TRUE])

\* CompactItemStep with "," for the separator ", ".
CompactItemStepNoSpace(s) ==
    LET f    == Top(s)
        self == f.self
        k    == f.i + 1
        s1   == IF ~f.is_first_child
                THEN Push(s, Arm(self, 52, 69), <<",">>)
                ELSE s
        s2   == IF self.tag = "Object"
                THEN Push(Push(Push(s1, 73, <<"\"">>), 74, FieldName(self, k)),
                          75, <<"\"", ":", " ">>)
                ELSE s1
    IN Call(s2, IF self.tag = "Object" THEN FieldChild(self, k)
                ELSE ArrayItem(self, k))

\* One iteration of the for loop, up to the recursive call.
CompactItemStep(s) ==
    LET f    == Top(s)
        self == f.self
        k    == f.i + 1
        s1   == IF ~f.is_first_child
                THEN Push(s, Arm(self, 52, 69), <<",", " ">>)
                ELSE s
        s2   == IF self.tag = "Object"
                THEN Push(Push(Push(s1, 73, <<"\"">>), 74, FieldName(self, k)),
                          75, <<"\"", ":", " ">>)
                ELSE s1
    IN Call(s2, IF self.tag = "Object" THEN FieldChild(self, k)
                ELSE ArrayItem(self, k))

\* The iterator is exhausted: string.push(']') / string.push('}').
CompactCloseStep(s) ==
    LET f == Top(s)
    IN Return(Push(s, Arm(f.self, 59, 79), CloseBracket(f.self)))

(***************************************************************************)
(* write_text_pretty                                                       *)
(***************************************************************************)
\* JSON::True / JSON::False arms.
PrettyLeafStep(s) ==
    LET self == Top(s).self
    IN Return(Push(s, IF self.tag = "True" THEN 88 ELSE 91, LeafText(self)))

\* PrettyOpenStep without the is_empty test: every composite opens a line.
PrettyOpenStepAlways(s) ==
    LET f    == Top(s)
        self == f.self
        s1   == Push(s, Arm(self, 95, 124), OpenBracket(self))
        s2   == Push(s1, Arm(self, 97, 126), <<"\n">>)
        s3   == [s2 EXCEPT !.indentation_buffer = @ \o IndentUnit]
    IN SetTop(s3, [f EXCEPT !.pc = "loop", !.is_first_child = TRUE])

\* string.push('['); if !children.is_empty() { string.push('\n');
\* indentation_buffer.push_str("    "); let mut is_first_child = true;
PrettyOpenStep(s) ==
    LET f    == Top(s)
        self == f.self
        s1   == Push(s, Arm(self, 95, 124), OpenBracket(self))
    IN IF NumItems(self) # 0
       THEN LET s2 == Push(s1, Arm(self, 97, 126), <<"\n">>)
                s3 == [s2 EXCEPT !.indentation_buffer = @ \o IndentUnit]
            IN SetTop(s3, [f EXCEPT !.pc = "loop", !.is_first_child = TRUE])
       ELSE SetTop(s1, [f EXCEPT !.pc = "close"])

\* PrettyItemStep with ", \n" for the separator ",\n".
PrettyItemStepSpace(s) ==
    LET f    == Top(s)
        self == f.self
        k    == f.i + 1
        s1   == IF ~f.is_first_child
                THEN Push(s, Arm(self, 105, 134), <<",", " ", "\n">>)
                ELSE s
        s2   == Push(s1, Arm(self, 109, 138), s1.indentation_buffer)
        s3   == IF self.tag = "Object"
                THEN Push(Push(Push(s2, 140, <<"\"">>), 141, FieldName(self, k)),
                          142, <<"\"", ":", " ">>)
                ELSE s2
    IN Call(s3, IF self.tag = "Object" THEN FieldChild(self, k)
                ELSE ArrayItem(self, k))

\* PrettyItemStep with "\":" for the "\": " that follows a name.
PrettyItemStepTightKey(s) ==
    LET f    == Top(s)
        self == f.self
        k    == f.i + 1
        s1   == IF ~f.is_first_child
                THEN Push(s, Arm(self, 105, 134), <<",", "\n">>)
                ELSE s
        s2   == Push(s1, Arm(self, 109, 138), s1.indentation_buffer)
        s3   == IF self.tag = "Object"
                THEN Push(Push(Push(s2, 140, <<"\"">>), 141, FieldName(self, k)),
                          142, <<"\"", ":">>)
                ELSE s2
    IN Call(s3, IF self.tag = "Object" THEN FieldChild(self, k)
                ELSE ArrayItem(self, k))

\* One iteration of the for loop, up to the recursive call.
PrettyItemStep(s) ==
    LET f    == Top(s)
        self == f.self
        k    == f.i + 1
        s1   == IF ~f.is_first_child
                THEN Push(s, Arm(self, 105, 134), <<",", "\n">>)
                ELSE s
        s2   == Push(s1, Arm(self, 109, 138), s1.indentation_buffer)
        s3   == IF self.tag = "Object"
                THEN Push(Push(Push(s2, 140, <<"\"">>), 141, FieldName(self, k)),
                          142, <<"\"", ":", " ">>)
                ELSE s2
    IN Call(s3, IF self.tag = "Object" THEN FieldChild(self, k)
                ELSE ArrayItem(self, k))

\* The iterator is exhausted: for _ in 0..4 { indentation_buffer.pop(); }
\* string.push('\n'); string.push_str(indentation_buffer);
PrettyDedentStep(s) ==
    LET f    == Top(s)
        self == f.self
        s1   == [s EXCEPT !.indentation_buffer = PopIndent(@)]
        s2   == Push(s1, Arm(self, 117, 150), <<"\n">>)
        s3   == Push(s2, Arm(self, 118, 151), s2.indentation_buffer)
    IN SetTop(s3, [f EXCEPT !.pc = "close"])

\* string.push(']') / string.push('}').
PrettyCloseStep(s) ==
    LET f == Top(s)
    IN Return(Push(s, Arm(f.self, 120, 153), CloseBracket(f.self)))

(***************************************************************************)
(* The step the code takes next, and a call run to its return              *)
(***************************************************************************)
CompactStep(s) ==
    LET f == Top(s)
    IN IF f.pc = "enter"
       THEN (IF IsLeaf(f.self) THEN CompactLeafStep(s) ELSE CompactOpenStep(s))
       ELSE IF f.i < NumItems(f.self) THEN CompactItemStep(s)
       ELSE CompactCloseStep(s)

PrettyStep(s) ==
    LET f == Top(s)
    IN IF f.pc = "enter"
       THEN (IF IsLeaf(f.self) THEN PrettyLeafStep(s) ELSE PrettyOpenStep(s))
       ELSE IF f.pc = "close" THEN PrettyCloseStep(s)
       ELSE IF f.i < NumItems(f.self) THEN PrettyItemStep(s)
       ELSE PrettyDedentStep(s)

RECURSIVE Exec(_, _)
Exec(format, s) ==
    IF ~Running(s) THEN s
    ELSE Exec(format, IF format = "Compact" THEN CompactStep(s) ELSE PrettyStep(s))

\* AST::write_text: the writer when the call is entered.
\* WriteTextEntry with the caller's string cleared first.
WriteTextEntryCleared(self, string, format) == Enter(self, <<>>, <<>>)

\* Pretty: let mut indentation_buffer = String::new().  Compact has no
\* indentation buffer; the writer's stays empty and is never read.
WriteTextEntry(self, string, format) == Enter(self, string, <<>>)

\* The text write_text(self, format) appends to an empty string.
to_text(self, format) == Exec(format, WriteTextEntry(self, <<>>, format)).string

(***************************************************************************)
(* get_children, get_replace_chars, from_replace_char                      *)
(***************************************************************************)
CHAR_TRUE == "t"

CHAR_FALSE == "f"

CHAR_ARRAY == "a"

CHAR_OBJECT == "o"

None == [some |-> FALSE]

Some(v) == [some |-> TRUE, value |-> v]

RECURSIVE FirstOfName(_, _)
\* The values of the pairs whose name no earlier pair carries.
FirstOfName(fields, k) ==
    IF k > Len(fields) THEN <<>>
    ELSE (IF \E j \in 1..(k - 1) : fields[j][1] = fields[k][1]
          THEN <<>> ELSE <<fields[k][2]>>) \o FirstOfName(fields, k + 1)

\* get_children with the pairs of an Object keyed by name.
get_children_by_name(self) ==
    IF IsLeaf(self) THEN <<>>
    ELSE IF self.tag = "Array" THEN self.children
    ELSE FirstOfName(self.fields, 1)

get_children(self) ==
    IF IsLeaf(self) THEN <<>>
    ELSE IF self.tag = "Array" THEN self.children
    ELSE [k \in 1..Len(self.fields) |-> self.fields[k][2]]

get_replace_chars(self) == <<CHAR_TRUE, CHAR_FALSE, CHAR_ARRAY, CHAR_OBJECT>>

\* from_replace_char without the CHAR_OBJECT arm.
from_replace_char_no_object(self, c) ==
    IF c = CHAR_TRUE THEN Some(JsonTrue)
    ELSE IF c = CHAR_FALSE THEN Some(JsonFalse)
    ELSE IF c = CHAR_ARRAY THEN Some(Array(<<>>))
    ELSE None

\* from_replace_char matching 'T' as it matches CHAR_TRUE.
from_replace_char_any_case(self, c) ==
    IF c = CHAR_TRUE \/ c = "T" THEN Some(JsonTrue)
    ELSE IF c = CHAR_FALSE THEN Some(JsonFalse)
    ELSE IF c = CHAR_ARRAY THEN Some(Array(<<>>))
    ELSE IF c = CHAR_OBJECT THEN Some(Object(<<>>))
    ELSE None

from_replace_char(self, c) ==
    IF c = CHAR_TRUE THEN Some(JsonTrue)
    ELSE IF c = CHAR_FALSE THEN Some(JsonFalse)
    ELSE IF c = CHAR_ARRAY THEN Some(Array(<<>>))
    ELSE IF c = CHAR_OBJECT THEN Some(Object(<<>>))
    ELSE None

(***************************************************************************)
(* Inputs of the calls                                                     *)
(***************************************************************************)
\* Contents of the caller's string before write_text.
PriorStrings == { <<>>, <<"x", ",", "\n">> }

\* Contents of indentation_buffer on a direct entry to write_text_pretty.
EntryIndents == { <<"x">>, <<" ", " ", " ", " ", " ">> }

\* Characters the host passes to from_replace_char.
InputChars == {"t", "f", "a", "o", "T", "x", " "}

(***************************************************************************)
(* Actions                                                                 *)
(***************************************************************************)
Init ==
    /\ node \in NodeSet
    /\ format_style = "Compact"
    /\ op = "new"
    /\ arg = <<>>
    /\ result = None
    /\ w = Idle

\* write_text(&self, string, format_style) is called with string = p.
WriteText(format, p) ==
    /\ ~Running(w)
    /\ format_style' = format
    /\ op' = "write_text"
    /\ arg' = p
    /\ result' = None
    /\ w' = WriteTextEntry(node, p, format)
    /\ UNCHANGED node

\* write_text_pretty(&self, string, indentation_buffer) is entered with a
\* buffer that is not empty.
WriteTextPretty(ib) ==
    /\ ~Running(w)
    /\ format_style' = "Pretty"
    /\ op' = "write_text_pretty"
    /\ arg' = ib
    /\ result' = None
    /\ w' = Enter(node, <<>>, ib)
    /\ UNCHANGED node

Writing(format) == Running(w) /\ format_style = format

Step(s) == w' = s /\ UNCHANGED <<node, format_style, op, arg, result>>

CompactLeaf ==
    /\ Writing("Compact") /\ At(w, "enter") /\ IsLeaf(Top(w).self)
    /\ Step(CompactLeafStep(w))

CompactOpen ==
    /\ Writing("Compact") /\ At(w, "enter") /\ ~IsLeaf(Top(w).self)
    /\ Step(CompactOpenStep(w))

CompactItem ==
    /\ Writing("Compact") /\ At(w, "loop") /\ Top(w).i < NumItems(Top(w).self)
    /\ Step(CompactItemStep(w))

CompactClose ==
    /\ Writing("Compact") /\ At(w, "loop") /\ Top(w).i >= NumItems(Top(w).self)
    /\ Step(CompactCloseStep(w))

PrettyLeaf ==
    /\ Writing("Pretty") /\ At(w, "enter") /\ IsLeaf(Top(w).self)
    /\ Step(PrettyLeafStep(w))

PrettyOpen ==
    /\ Writing("Pretty") /\ At(w, "enter") /\ ~IsLeaf(Top(w).self)
    /\ Step(PrettyOpenStep(w))

PrettyItem ==
    /\ Writing("Pretty") /\ At(w, "loop") /\ Top(w).i < NumItems(Top(w).self)
    /\ Step(PrettyItemStep(w))

PrettyDedent ==
    /\ Writing("Pretty") /\ At(w, "loop") /\ Top(w).i >= NumItems(Top(w).self)
    /\ Step(PrettyDedentStep(w))

PrettyClose ==
    /\ Writing("Pretty") /\ At(w, "close")
    /\ Step(PrettyCloseStep(w))

\* A call of an operation that takes no buffer.
Called(name, a, r) ==
    /\ ~Running(w)
    /\ op' = name
    /\ arg' = a
    /\ result' = r
    /\ w' = Idle
    /\ UNCHANGED <<node, format_style>>

CallGetChildren == Called("get_children", <<>>, get_children(node))

CallGetReplaceChars == Called("get_replace_chars", <<>>, get_replace_chars(node))

CallFromReplaceChar(c) == Called("from_replace_char", c, from_replace_char(node, c))

\* The host retypes the node: it puts the node from_replace_char returned
\* in the place of the one it holds.
Retype ==
    /\ ~Running(w)
    /\ op = "from_replace_char"
    /\ result.some
    /\ node' = result.value
    /\ op' = "retype"
    /\ arg' = <<>>
    /\ result' = None
    /\ w' = Idle
    /\ UNCHANGED format_style

Next ==
    \/ \E format \in JSONFormat, p \in PriorStrings : WriteText(format, p)
    \/ \E ib \in EntryIndents : WriteTextPretty(ib)
    \/ CompactLeaf
    \/ CompactOpen
    \/ CompactItem
    \/ CompactClose
    \/ PrettyLeaf
    \/ PrettyOpen
    \/ PrettyItem
    \/ PrettyDedent
    \/ PrettyClose
    \/ CallGetChildren
    \/ CallGetReplaceChars
    \/ \E c \in InputChars : CallFromReplaceChar(c)
    \/ Retype

Spec == Init /\ [][Next]_vars

(***************************************************************************)
(* Properties                                                              *)
(***************************************************************************)
Range(f) == {f[k] : k \in DOMAIN f}

RECURSIVE Spaces(_)
Spaces(n) == IF n = 0 THEN <<>> ELSE <<" ">> \o Spaces(n - 1)

RECURSIVE Join(_, _)
\* The texts of `parts` in order, `sep` between consecutive ones.
Join(parts, sep) ==
    IF Len(parts) = 0 THEN <<>>
    ELSE IF Len(parts) = 1 THEN parts[1]
    ELSE parts[1] \o sep \o Join(Tail(parts), sep)

HasReturned == w.returned # NoReturn

\* A write_text call has returned to the host.
Written(format) ==
    /\ op = "write_text"
    /\ format_style = format
    /\ ~Running(w)

IsEmptyComposite(n) == ~IsLeaf(n) /\ NumItems(n) = 0

RECURSIVE CompactForm(_)
\* The compact rendering as the specification words it.
CompactForm(n) ==
    IF n.tag = "True" THEN <<"t", "r", "u", "e">>
    ELSE IF n.tag = "False" THEN <<"f", "a", "l", "s", "e">>
    ELSE IF n.tag = "Array"
    THEN <<"[">>
         \o Join([k \in 1..Len(n.children) |-> CompactForm(n.children[k])],
                 <<",", " ">>)
         \o <<"]">>
    ELSE <<"{">>
         \o Join([k \in 1..Len(n.fields) |->
                     <<"\"">> \o n.fields[k][1] \o <<"\"", ":", " ">>
                     \o CompactForm(n.fields[k][2])],
                 <<",", " ">>)
         \o <<"}">>

RECURSIVE PrettyForm(_, _)
\* The pretty rendering of a node at nesting depth d as the specification
\* words it.
PrettyForm(n, d) ==
    IF n.tag = "True" THEN <<"t", "r", "u", "e">>
    ELSE IF n.tag = "False" THEN <<"f", "a", "l", "s", "e">>
    ELSE IF n.tag = "Array"
    THEN IF Len(n.children) = 0 THEN <<"[", "]">>
         ELSE <<"[", "\n">>
              \o Join([k \in 1..Len(n.children) |->
                          Spaces(4 * (d + 1)) \o PrettyForm(n.children[k], d + 1)],
                      <<",", "\n">>)
              \o <<"\n">> \o Spaces(4 * d) \o <<"]">>
    ELSE IF Len(n.fields) = 0 THEN <<"{", "}">>
         ELSE <<"{", "\n">>
              \o Join([k \in 1..Len(n.fields) |->
                          Spaces(4 * (d + 1))
                          \o <<"\"">> \o n.fields[k][1] \o <<"\"", ":", " ">>
                          \o PrettyForm(n.fields[k][2], d + 1)],
                      <<",", "\n">>)
              \o <<"\n">> \o Spaces(4 * d) \o <<"}">>

\* C1: under Compact every invocation, the outermost and every nested one,
\* appends exactly the compact form of its node: the leaf token, or the
\* brackets around the items in authored order joined by ", " with no
\* trailing separator, every pair kept as "<name>": <value>; and when
\* write_text has returned, the string is the prior content followed by the
\* compact form of the root.
C1_CompactForm ==
    /\ (format_style = "Compact" /\ HasReturned)
           => w.returned.text = CompactForm(w.returned.self)
    /\ Written("Compact")
           => /\ HasReturned /\ w.returned.self = node
              /\ w.string = w.prior \o CompactForm(node)

\* A compact write_text has returned for an Object of two pairs that carry
\* the same name.
C1_Witness ==
    /\ Written("Compact")
    /\ node.tag = "Object"
    /\ Len(node.fields) = 2
    /\ node.fields[1][1] = node.fields[2][1]
    /\ node.fields[1][2] # node.fields[2][2]

\* C2: in a Pretty write_text every invocation for a non-empty composite at
\* nesting depth d appends the open bracket, a newline, each item on its own
\* line behind 4*(d+1) spaces, ",\n" between consecutive items, then a
\* newline, 4*d spaces and the closing bracket.
C2_PrettyLayout ==
    (op = "write_text" /\ format_style = "Pretty" /\ HasReturned
        /\ ~IsLeaf(w.returned.self) /\ NumItems(w.returned.self) > 0)
    => w.returned.text = PrettyForm(w.returned.self, w.returned.depth)

\* A non-empty composite at nesting depth 1 has returned.
C2_Witness ==
    /\ op = "write_text" /\ format_style = "Pretty" /\ HasReturned
    /\ NumItems(w.returned.self) > 0
    /\ w.returned.depth = 1

\* C3: under Pretty an empty Array or Object, at any depth, appends exactly
\* "[]" or "{}", and indentation_buffer keeps its value on entry throughout
\* the invocation.
C3_EmptyComposite ==
    format_style = "Pretty" =>
        /\ (HasReturned /\ IsEmptyComposite(w.returned.self))
               => /\ w.returned.text =
                         OpenBracket(w.returned.self) \o CloseBracket(w.returned.self)
                  /\ w.returned.exit_ib = w.returned.entry_ib
        /\ (Running(w) /\ IsEmptyComposite(Top(w).self))
               => /\ w.indentation_buffer = Top(w).entry_ib
                  /\ Top(w).pc = "close"
                         => SubSeq(w.string, Top(w).from + 1, Len(w.string))
                                = OpenBracket(Top(w).self)

\* An empty Array that is the value of an Object pair has returned under
\* Pretty.
C3_Witness ==
    /\ format_style = "Pretty" /\ HasReturned
    /\ w.returned.self = Array(<<>>)
    /\ w.returned.depth = 1
    /\ node.tag = "Object"

\* The lines of write_text_pretty that push a newline or the indentation.
LayoutLines == {97, 109, 117, 118, 126, 138, 150, 151}

\* The lines of write_text_pretty that push the sibling separator.
SeparatorLines == {105, 134}

IsBlank(text) == \A k \in DOMAIN text : text[k] = " "

RECURSIVE Stripped(_)
\* The pushed texts in order, the newlines and indentation the algorithm
\* inserted left out and each separator ",\n" it inserted turned into ", ".
Stripped(pushes) ==
    IF pushes = <<>> THEN <<>>
    ELSE LET p == Head(pushes)
         IN (IF p.line \in LayoutLines /\ (p.text = <<"\n">> \/ IsBlank(p.text))
             THEN <<>>
             ELSE IF p.line \in SeparatorLines /\ p.text = <<",", "\n">>
             THEN <<",", " ">>
             ELSE p.text)
            \o Stripped(Tail(pushes))

RECURSIVE TextStrip(_, _, _, _)
\* The same strip made on the text alone, from its k-th character on: what
\* stands between double quotes is a name and is kept; outside a name a
\* newline and the spaces that follow it are left out, and ",\n" becomes ", ".
TextStrip(text, k, inName, lineStart) ==
    IF k > Len(text) THEN <<>>
    ELSE LET c == text[k]
         IN IF inName
            THEN <<c>> \o TextStrip(text, k + 1, c # "\"", FALSE)
            ELSE IF c = "\n" \/ (c = " " /\ lineStart)
            THEN TextStrip(text, k + 1, FALSE, TRUE)
            ELSE IF c = "," /\ k < Len(text) /\ text[k + 1] = "\n"
            THEN <<",", " ">> \o TextStrip(text, k + 2, FALSE, TRUE)
            ELSE <<c>> \o TextStrip(text, k + 1, c = "\"", FALSE)

RECURSIVE QuoteFree(_)
\* No name in the document holds a double quote.
QuoteFree(n) ==
    IF IsLeaf(n) THEN TRUE
    ELSE IF n.tag = "Array"
    THEN \A k \in 1..Len(n.children) : QuoteFree(n.children[k])
    ELSE \A k \in 1..Len(n.fields) :
             /\ "\"" \notin Range(n.fields[k][1])
             /\ QuoteFree(n.fields[k][2])

\* C4: the Pretty output with the inserted newlines and indentation left out
\* and each inserted ",\n" turned into ", " is the Compact output of the
\* same node, whatever characters the names hold: spaces, commas and
\* newlines in a name are not layout.  The strip is made on the pushes, which
\* make up the output; for names without a double quote the strip made on
\* the text alone gives the same.
C4_PrettyModuloLayout ==
    Written("Pretty") =>
        /\ Join([k \in DOMAIN w.pushes |-> w.pushes[k].text], <<>>)
               = w.returned.text
        /\ Stripped(w.pushes) = to_text(node, "Compact")
        /\ QuoteFree(node)
               => TextStrip(w.returned.text, 1, FALSE, FALSE) = to_text(node, "Compact")

\* A Pretty write_text has returned for an Object with a name that holds a
\* comma, a newline and a space.
C4_Witness ==
    /\ Written("Pretty")
    /\ node.tag = "Object"
    /\ \E k \in 1..Len(node.fields) : node.fields[k][1] = <<",", "\n", " ">>

\* The number of invocations that are inside their loop.
LoopDepth(s) == Cardinality({k \in DOMAIN s.stack : s.stack[k].pc = "loop"})

\* indentation_buffer as the outermost invocation was entered.
EntryIndent == IF op = "write_text_pretty" THEN arg ELSE <<>>

\* C5: every invocation of write_text_pretty returns with indentation_buffer
\* equal to its value on entry; during the call the buffer is the entry
\* value of the outermost invocation followed by 4 spaces per composite
\* whose loop is running (so 4 times the nesting depth from write_text),
\* and it is the entry value again at the end.
C5_IndentDiscipline ==
    format_style = "Pretty" =>
        /\ HasReturned => w.returned.exit_ib = w.returned.entry_ib
        /\ w.indentation_buffer = EntryIndent \o Spaces(4 * LoopDepth(w))
        /\ Running(w) => Top(w).entry_ib = EntryIndent \o Spaces(4 * (Len(w.stack) - 1))

\* An invocation at nesting depth 2 has returned, entered with 8 spaces.
C5_Witness ==
    /\ op = "write_text" /\ format_style = "Pretty" /\ HasReturned
    /\ w.returned.depth = 2
    /\ Len(w.returned.entry_ib) = 8
    /\ Len(w.indentation_buffer) = 8

\* C6: two nodes that differ produce different text under the same style.
C6_Injective ==
    (op = "write_text" /\ ~Running(w) /\ HasReturned)
    => \A m \in NodeSet :
           m # node => to_text(m, format_style) # w.returned.text

\* C7 (state part): the node of every nested invocation is the i-th value of
\* get_children of its caller's node, i the number of items the caller's
\* loop has taken; an invocation returns when it has taken as many items as
\* get_children yields; and get_children returned that sequence.
C7_ChildOrder ==
    /\ \A k \in 2..Len(w.stack) :
           /\ w.stack[k - 1].i \in 1..Len(get_children(w.stack[k - 1].self))
           /\ w.stack[k].self = get_children(w.stack[k - 1].self)[w.stack[k - 1].i]
    /\ HasReturned => w.returned.taken = Len(get_children(w.returned.self))
    /\ (HasReturned /\ Running(w) /\ Len(w.stack) = w.returned.depth)
           => w.returned.self = get_children(Top(w).self)[Top(w).i]
    /\ op = "get_children"
           => /\ Len(result) = NumItems(node)
              /\ IsLeaf(node) => result = <<>>

\* C7: the state part always holds, and a call of get_children that follows
\* a call of get_children returns the same sequence.
C7_GetChildren ==
    /\ []C7_ChildOrder
    /\ [][(op = "get_children" /\ op' = "get_children") => result' = result]_vars

\* The second of two pairs with the same name is being written.
C7_Witness ==
    /\ Len(w.stack) = 2
    /\ node.tag = "Object"
    /\ w.stack[1].i = 2
    /\ node.fields[1][1] = node.fields[2][1]
    /\ node.fields[1][2] # node.fields[2][2]

\* C8: every character get_replace_chars yields is accepted by
\* from_replace_char, and the node it returns has a palette that is not
\* empty; in every state, after any number of retypes.
C8_PaletteClosed ==
    /\ \A c \in Range(get_replace_chars(node)) :
           /\ from_replace_char(node, c).some
           /\ get_replace_chars(from_replace_char(node, c).value) # <<>>
    /\ (op = "from_replace_char" /\ arg \in Range(get_replace_chars(node)))
           => result.some /\ get_replace_chars(result.value) # <<>>

\* The host has retyped the node to an empty Object.
C8_Witness == op = "retype" /\ node = Object(<<>>)

\* C9: from_replace_char called with a character that get_replace_chars
\* does not yield returns None and leaves the node as it was.
C9_NotFound ==
    [][(op' = "from_replace_char" /\ arg' \notin Range(get_replace_chars(node)))
           => (result' = None /\ node' = node)]_vars

\* from_replace_char was called with 'T' on a composite that has children.
C9_Witness ==
    /\ op = "from_replace_char" /\ arg = "T" /\ result = None
    /\ NumItems(node) = 2

\* C10: write_text only appends: throughout the call the string starts with
\* the prior content, and when the call has returned the string is the
\* prior content followed by the text write_text appends to an empty string.
C10_AppendOnly ==
    op = "write_text" =>
        /\ Len(w.string) >= Len(arg)
        /\ SubSeq(w.string, 1, Len(arg)) = arg
        /\ ~Running(w) => w.string = arg \o to_text(node, format_style)

\* A Pretty write_text has returned into a string that was not empty, for a
\* composite with a nested composite.
C10_Witness ==
    /\ Written("Pretty")
    /\ arg # <<>>
    /\ NumItems(node) > 0
    /\ \E k \in 1..NumItems(node) : NumItems(get_children(node)[k]) > 0

====
